---- MODULE Spec2Model ----
(***************************************************************************)
(* A model of extensions/markdown/src/extension.ts: the activation routine *)
(* of the markdown extension, the command handlers it registers and the    *)
(* event listeners it subscribes.                                          *)
(*                                                                         *)
(* The extension host is single threaded.  `activate` and every listener   *)
(* run to completion, so each is one action.  A command handler that       *)
(* chains promises is suspended at every host call it waits for; each      *)
(* settlement of such a call is one action, with the outcome chosen by the *)
(* host.                                                                   *)
(***************************************************************************)
EXTENDS Integers, Sequences, FiniteSets, TLC

\* ------------------------------------------------------------------ bounds

\* Number of entries of vscode.extensions.all.
MaxExt == 2

\* Total number of contributions (preview styles, preview scripts, plugin
\* hooks) declared by all installed extensions together.
MaxContrib == 2

\* Number of document-saved and document-changed events delivered.
MaxDocEvents == 4

\* Number of selection-changed and configuration-changed events delivered.
MaxSelEvents == 2

\* Largest line number of a position.
MaxLine == 1

VARIABLES
    installed,          \* vscode.extensions.all: the packageJSON of each extension
    markdownExt,        \* vscode.extensions.getExtension('Microsoft.vscode-markdown')
    pc,                 \* activate: "start", "returned" or "threw"
    telemetryReporter,  \* the module variable telemetryReporter
    subscriptions,      \* context.subscriptions
    registered,         \* providers, commands and listeners registered with the host
    managerCommands,    \* commands registered with the CommandManager
    previewStyles,      \* resources given to contentProvider.addStyle
    previewScripts,     \* resources given to contentProvider.addScript
    activation,         \* per extension: the promise returned by extension.activate()
    exports,            \* per extension: extension.exports once activated
    callbackRan,        \* per extension: the then-callback of line 89 has run
    plugins,            \* engine.addPlugin calls: the extensions, in call order
    events,             \* the events the host has delivered, in order
    updates,            \* the arguments of the contentProvider.update calls, in order
    effects,            \* the logger, configuration and executeCommand calls of the listeners
    activeEditor,       \* vscode.window.activeTextEditor
    link,               \* the running invocation of _markdown.openDocumentLink
    click,              \* the running invocation of _markdown.didClick
    selection           \* per document: the selection of the editor showing it

activationVars == <<installed, markdownExt, pc, telemetryReporter, subscriptions,
                    registered, managerCommands, previewStyles, previewScripts,
                    activation, exports, callbackRan, plugins>>

eventVars == <<events, updates, effects>>

linkVars == <<activeEditor, link>>

clickVars == <<click, selection>>

handlerVars == <<eventVars, linkVars, clickVars>>

vars == <<activationVars, handlerVars>>

\* ------------------------------------------------------- values of the host

\* A value declared under markdown.previewStyles / markdown.previewScripts.
\* A string is written scheme:path, or path alone when scheme is "".  A JSON
\* value that is not a string makes Uri.parse throw; the content provider
\* throws on the resource of the last one.
ContributedPaths ==
    { [isString |-> TRUE,  scheme |-> "https",   path |-> "//cdn/x"],
      [isString |-> TRUE,  scheme |-> "",        path |-> "media/x"],
      [isString |-> FALSE, scheme |-> "",        path |-> ""],
      [isString |-> TRUE,  scheme |-> "refused", path |-> "x"] }

NoContributes == [defined |-> FALSE, styles |-> <<>>, scripts |-> <<>>, plugins |-> FALSE]

NoPackageJSON == [defined |-> FALSE, contributes |-> NoContributes]

\* Sequences over S of length at most n.
SeqUpTo(S, n) == UNION { [1..k -> S] : k \in 0..n }

\* The number of contributions a packageJSON declares.
Cost(packageJSON) ==
    Len(packageJSON.contributes.styles) + Len(packageJSON.contributes.scripts)
        + (IF packageJSON.contributes.plugins THEN 1 ELSE 0)

\* The contributes blocks declaring at most b contributions.
ContributesUpTo(b) ==
    UNION { UNION { { [defined |-> TRUE, styles |-> s, scripts |-> c, plugins |-> p]
                      : c \in SeqUpTo(ContributedPaths, b - Len(s) - (IF p THEN 1 ELSE 0)) }
                    : s \in SeqUpTo(ContributedPaths, b - (IF p THEN 1 ELSE 0)) }
            : p \in IF b >= 1 THEN BOOLEAN ELSE {FALSE} }

PackageJSONsUpTo(b) ==
    { NoPackageJSON, [defined |-> TRUE, contributes |-> NoContributes] }
        \cup { [defined |-> TRUE, contributes |-> c] : c \in ContributesUpTo(b) }

\* The lists of at most n extensions declaring at most b contributions.
RECURSIVE InstalledUpTo(_, _)
InstalledUpTo(n, b) ==
    IF n = 0 THEN { <<>> }
    ELSE { <<>> } \cup
         UNION { { <<p>> \o rest : rest \in InstalledUpTo(n - 1, b - Cost(p)) }
                 : p \in PackageJSONsUpTo(b) }

\* The vscode.Extension object at position i of vscode.extensions.all.
Extension(i) ==
    [index |-> i, extensionPath |-> "/extensions/e" \o ToString(i), packageJSON |-> installed[i]]

ExtIds == 1..Len(installed)

\* ------------------------------------------------------------- activation

Ok(v) == [ok |-> TRUE, value |-> v]

\* A thrown exception, in the shape of a result.
Thrown == [ok |-> FALSE, value |-> [scheme |-> "", path |-> ""]]

\* vscode.Uri.parse: the scheme and the rest of a string; throws on a value
\* that is not a string.
UriParse(value) ==
    IF value.isString THEN Ok([scheme |-> value.scheme, path |-> value.path]) ELSE Thrown

\* vscode.Uri.file
UriFile(fsPath) == [scheme |-> "file", path |-> fsPath]

\* path.join of a directory and a relative path
PathJoin(dir, rel) == dir \o "/" \o rel

resolveExtensionResources(extension, stylePath) ==
    LET resource == UriParse(stylePath) IN
    IF ~resource.ok THEN Thrown
    ELSE IF resource.value.scheme # "" THEN resource
    ELSE Ok(UriFile(PathJoin(extension.extensionPath, stylePath.path)))

\* contentProvider.addStyle and contentProvider.addScript: the resource is
\* appended to the provider's list, unless the provider throws.
addResource(list, resource) ==
    IF resource.scheme = "refused" THEN [ok |-> FALSE, value |-> list]
    ELSE [ok |-> TRUE, value |-> Append(list, resource)]

\* What the contribution loop has done so far: the resources registered, the
\* extensions whose activate() was called, and whether an exception escaped.
EmptyFrame == [styles |-> <<>>, scripts |-> <<>>, activated |-> {}, threw |-> FALSE]

\* A style added without the try/catch: the exception escapes the loop.
TryAddStyleNoCatch(frame, extension, style) ==
    LET resource == resolveExtensionResources(extension, style)
        added == addResource(frame.styles, resource.value)
    IN  IF resource.ok /\ added.ok THEN [frame EXCEPT !.styles = added.value]
        ELSE [frame EXCEPT !.threw = TRUE]

\* Lines 69-73: one style, inside its own try/catch.
TryAddStyle(frame, extension, style) ==
    LET resource == resolveExtensionResources(extension, style)
        added == addResource(frame.styles, resource.value)
    IN  IF resource.ok /\ added.ok THEN [frame EXCEPT !.styles = added.value]
        ELSE frame

\* Lines 80-84: one script, inside its own try/catch.
TryAddScript(frame, extension, script) ==
    LET resource == resolveExtensionResources(extension, script)
        added == addResource(frame.scripts, resource.value)
    IN  IF resource.ok /\ added.ok THEN [frame EXCEPT !.scripts = added.value]
        ELSE frame

RECURSIVE AddStyles(_, _, _)
AddStyles(frame, extension, styles) ==
    IF frame.threw \/ styles = <<>> THEN frame
    ELSE AddStyles(TryAddStyle(frame, extension, Head(styles)), extension, Tail(styles))

RECURSIVE AddScripts(_, _, _)
AddScripts(frame, extension, scripts) ==
    IF frame.threw \/ scripts = <<>> THEN frame
    ELSE AddScripts(TryAddScript(frame, extension, Head(scripts)), extension, Tail(scripts))

\* Lines 88-94: extension.activate() is called when the plugin hook is declared.
ActivatePlugins(frame, extension, contributes) ==
    IF ~frame.threw /\ contributes.plugins
    THEN [frame EXCEPT !.activated = @ \cup {extension.index}]
    ELSE frame

\* Lines 61-94: the body of the loop for one extension.
ContributionBody(frame, extension) ==
    LET contributes == IF extension.packageJSON.defined
                       THEN extension.packageJSON.contributes
                       ELSE NoContributes
    IN  IF ~contributes.defined THEN frame
        ELSE ActivatePlugins(
                 AddScripts(AddStyles(frame, extension, contributes.styles),
                            extension, contributes.scripts),
                 extension, contributes)

\* Lines 60-95: the loop over vscode.extensions.all, from position i on.
RECURSIVE ContributionLoop(_, _)
ContributionLoop(frame, i) ==
    IF frame.threw \/ i > Len(installed) THEN frame
    ELSE ContributionLoop(ContributionBody(frame, Extension(i)), i + 1)

\* Lines 213-223.
getPackageInfo ==
    IF markdownExt = "withPackageJSON"
    THEN [defined |-> TRUE, name |-> "vscode-markdown"]
    ELSE [defined |-> FALSE, name |-> ""]

\* Line 46: packageInfo && new TelemetryReporter(...)
NewTelemetryReporter(packageInfo) == IF packageInfo.defined THEN "reporter" ELSE "null"

\* The reporter pushed without the test of line 47.
PushTelemetryReporterAlways(subs, reporter) == Append(subs, "telemetryReporter")

\* Lines 47-49.
PushTelemetryReporter(subs, reporter) ==
    IF reporter # "null" THEN Append(subs, "telemetryReporter") ELSE subs

\* Lines 106-111: the commands registered with the command manager.
ManagerCommands ==
    { "ShowPreviewCommand", "ShowPreviewToSideCommand", "ShowSourceCommand",
      "RefreshPreviewCommand", "RevealLineCommand", "MoveCursorToPositionCommand" }

\* Lines 113-175: the commands registered with vscode.commands.registerCommand.
AdHocCommands ==
    { "_markdown.didClick", "_markdown.openDocumentLink",
      "markdown.showPreviewSecuritySelector", "_markdown.onPreviewStyleLoadError" }

\* Lines 179-198: the events subscribed.
Listeners ==
    { "onDidSaveTextDocument", "onDidChangeTextDocument",
      "onDidChangeConfiguration", "onDidChangeTextEditorSelection" }

\* The pushes with the link provider's registration dropped.
PushRegistrationsNoLinkProvider(subs) ==
    subs \o << "contentProviderRegistration", "symbolsProviderRegistration",
               "commandManager",
               "_markdown.didClick", "_markdown.openDocumentLink",
               "markdown.showPreviewSecuritySelector", "_markdown.onPreviewStyleLoadError",
               "onDidSaveTextDocument", "onDidChangeTextDocument",
               "onDidChangeConfiguration", "onDidChangeTextEditorSelection" >>

\* Lines 97-209: what is pushed onto context.subscriptions after the loop, in
\* the order of the pushes.
PushRegistrations(subs) ==
    subs \o << "contentProviderRegistration", "symbolsProviderRegistration",
               "linkProviderRegistration",
               "commandManager",
               "_markdown.didClick", "_markdown.openDocumentLink",
               "markdown.showPreviewSecuritySelector", "_markdown.onPreviewStyleLoadError",
               "onDidSaveTextDocument", "onDidChangeTextDocument",
               "onDidChangeConfiguration", "onDidChangeTextEditorSelection" >>

\* Lines 57-198: what the host has been asked to register when activate returns.
HostRegistrations ==
    { "contentProvider", "symbolsProvider", "linkProvider" } \cup AdHocCommands \cup Listeners

\* The promise extension.activate() returns, and the exports it leaves: still
\* pending, or already settled for an extension the host activated before.
Settled ==
    { [state |-> "rejected", exports |-> "unset"] } \cup
    { [state |-> "resolved", exports |-> e] : e \in {"undefined", "noHook", "extendMarkdownIt"} }

Unsettled == [state |-> "pending", exports |-> "unset"]

\* Lines 44-210: activate(context).
Activate ==
    /\ pc = "start"
    /\ LET packageInfo == getPackageInfo
           reporter == NewTelemetryReporter(packageInfo)
           subs == PushTelemetryReporter(subscriptions, reporter)
           frame == ContributionLoop(EmptyFrame, 1)
       IN  /\ telemetryReporter' = reporter
           /\ previewStyles' = frame.styles
           /\ previewScripts' = frame.scripts
           /\ \E promise \in [frame.activated -> {Unsettled} \cup Settled] :
                 /\ activation' = [i \in ExtIds |->
                        IF i \in frame.activated THEN promise[i].state ELSE "none"]
                 /\ exports' = [i \in ExtIds |->
                        IF i \in frame.activated THEN promise[i].exports ELSE "unset"]
           /\ IF frame.threw
              THEN /\ pc' = "threw"
                   /\ subscriptions' = subs
                   /\ registered' = {"contentProvider"}
                   /\ managerCommands' = {}
              ELSE /\ pc' = "returned"
                   /\ subscriptions' = PushRegistrations(subs)
                   /\ registered' = HostRegistrations
                   /\ managerCommands' = ManagerCommands
    /\ callbackRan' = [i \in ExtIds |-> FALSE]
    /\ UNCHANGED <<installed, markdownExt, plugins, handlerVars>>

\* The host settles the activation of extension i.
SettleActivation(i) ==
    /\ activation[i] = "pending"
    /\ \E outcome \in Settled :
          /\ activation' = [activation EXCEPT ![i] = outcome.state]
          /\ exports' = [exports EXCEPT ![i] = outcome.exports]
    /\ UNCHANGED <<installed, markdownExt, pc, telemetryReporter, subscriptions, registered,
                   managerCommands, previewStyles, previewScripts, callbackRan, plugins,
                   handlerVars>>

\* The callback without the test of line 90.
AddPluginUnchecked(engine, i) == Append(engine, i)

\* Lines 90-92: the body of the callback, for extension i.
AddPluginIfExported(engine, i) ==
    IF exports[i] # "undefined" /\ exports[i] = "extendMarkdownIt"
    THEN Append(engine, i)
    ELSE engine

\* Lines 89-93: the callback given to then(): it runs once, after the promise
\* resolved and after activate has run to completion.
PluginCallback(i) ==
    /\ pc # "start"
    /\ activation[i] = "resolved"
    /\ ~callbackRan[i]
    /\ callbackRan' = [callbackRan EXCEPT ![i] = TRUE]
    /\ plugins' = AddPluginIfExported(plugins, i)
    /\ UNCHANGED <<installed, markdownExt, pc, telemetryReporter, subscriptions, registered,
                   managerCommands, previewStyles, previewScripts, activation, exports,
                   handlerVars>>

\* The state of the extension before activate is called.
NotActivated ==
    /\ pc = "start"
    /\ telemetryReporter = "undefined"
    /\ subscriptions = <<>>
    /\ registered = {}
    /\ managerCommands = {}
    /\ previewStyles = <<>>
    /\ previewScripts = <<>>
    /\ activation = [i \in ExtIds |-> "none"]
    /\ exports = [i \in ExtIds |-> "unset"]
    /\ callbackRan = [i \in ExtIds |-> FALSE]
    /\ plugins = <<>>

\* No event has been delivered.
NoEvents ==
    /\ events = <<>>
    /\ updates = <<>>
    /\ effects = <<>>

\* An editor, and the absence of one.
Editor(document) == [defined |-> TRUE, document |-> document]

NoEditor == [defined |-> FALSE, document |-> [uri |-> UriFile(<<>>), languageId |-> ""]]

\* Not a line: the NaN that a failed lookup yields.
NaN == [nan |-> TRUE, value |-> 0]

Line(n) == [nan |-> FALSE, value |-> n]

\* A call of the host or of a collaborator, as a command handler makes it.
Call(name, path, fragment, line, at) ==
    [name |-> name, path |-> path, fragment |-> fragment, line |-> line, at |-> at]

\* The handler of _markdown.openDocumentLink before its first invocation.
LinkIdle ==
    [pc |-> "idle", args |-> [path |-> <<>>, fragment |-> ""], attempt |-> 0,
     target |-> <<>>, editor |-> NoEditor, calls |-> <<>>, result |-> "none",
     matched |-> FALSE, lookup |-> "none", found |-> NaN,
     firstFailed |-> FALSE, retried |-> FALSE, retryFailed |-> FALSE]

\* A position, and the selection from anchor to active.
Position(line, character) == [line |-> line, character |-> character]

Selection(anchor, active) == [anchor |-> anchor, active |-> active]

\* The paths of the documents a preview click may name.
ClickPaths == { "/a.md", "/b.md" }

\* The handler of _markdown.didClick before its first invocation.
ClickIdle ==
    [pc |-> "idle", uri |-> "", line |-> [num |-> 0, den |-> 1], path |-> "",
     editor |-> FALSE, calls |-> <<>>, settled |-> 0, result |-> "none",
     before |-> [path \in ClickPaths |-> Selection(Position(0, 1), Position(0, 1))]]

\* No command is running, no editor is open, and every editor to come has
\* its cursor after the first character of the first line.
NoCommands ==
    /\ activeEditor = NoEditor
    /\ link = LinkIdle
    /\ click = ClickIdle
    /\ selection = [path \in ClickPaths |-> Selection(Position(0, 1), Position(0, 1))]

InitActivation ==
    /\ installed \in InstalledUpTo(MaxExt, MaxContrib)
    /\ markdownExt \in {"undefined", "noPackageJSON", "withPackageJSON"}
    /\ NotActivated
    /\ NoEvents
    /\ NoCommands

NextActivation ==
    \/ Activate
    \/ \E i \in ExtIds : SettleActivation(i)
    \/ \E i \in ExtIds : PluginCallback(i)

SpecActivation == InitActivation /\ [][NextActivation]_vars

\* ------------------------------------------------------------- listeners

\* A host without other extensions, on which the handlers are exercised.
InitHost ==
    /\ installed = <<>>
    /\ markdownExt = "withPackageJSON"
    /\ NotActivated

Lines == 0..MaxLine

\* The documents of the workspace: two markdown files and a text file.
Documents ==
    { [uri |-> UriFile("/a.md"),  languageId |-> "markdown"],
      [uri |-> UriFile("/b.md"),  languageId |-> "markdown"],
      [uri |-> UriFile("/c.txt"), languageId |-> "plaintext"] }

NoDocument == [uri |-> UriFile(""), languageId |-> ""]

\* isMarkdownFile of previewContentProvider: by language identifier.
isMarkdownFile(document) == document.languageId = "markdown"

\* getMarkdownUri of previewContentProvider: the preview's URI, under the
\* markdown scheme, holding the source URI as its query.
getMarkdownUri(uri) ==
    [scheme |-> "markdown", path |-> uri.path \o ".rendered",
     query |-> uri.scheme \o "://" \o uri.path]

\* A selection: the line of its anchor and the line of its active end.
Selections == { [anchor |-> a, active |-> b] : a, b \in Lines }

\* event.selections: one selection, or two with the second one reversed.
SelectionLists ==
    { << sel >> : sel \in Selections } \cup
    { << sel, [anchor |-> sel.active, active |-> sel.anchor] >> : sel \in Selections }

\* The save listener run on every document, markdown or not.
SaveListenerUnguarded(calls, document) == Append(calls, getMarkdownUri(document.uri))

\* Lines 179-184: the listener of onDidSaveTextDocument.
SaveListener(calls, document) ==
    IF isMarkdownFile(document)
    THEN LET uri == getMarkdownUri(document.uri) IN Append(calls, uri)
    ELSE calls

\* Lines 186-191: the listener of onDidChangeTextDocument.
ChangeListener(calls, event) ==
    IF isMarkdownFile(event.document)
    THEN LET uri == getMarkdownUri(event.document.uri) IN Append(calls, uri)
    ELSE calls

\* Lines 193-196: the listener of onDidChangeConfiguration.
ConfigurationListener(calls) ==
    calls \o << [call |-> "logger.updateConfiguration"],
                [call |-> "contentProvider.updateConfiguration"] >>

\* The selection listener forwarding the anchor of the last selection.
SelectionListenerLastAnchor(calls, event) ==
    IF isMarkdownFile(event.document)
    THEN LET markdownFile == getMarkdownUri(event.document.uri) IN
         calls \o << [call |-> "logger.log", title |-> "updatePreviewForSelection",
                      markdownFile |-> markdownFile],
                     [call |-> "executeCommand",
                      command |-> "_workbench.htmlPreview.postMessage",
                      uri |-> markdownFile,
                      line |-> event.selections[Len(event.selections)].anchor] >>
    ELSE calls

\* Lines 198-209: the listener of onDidChangeTextEditorSelection.
SelectionListener(calls, event) ==
    IF isMarkdownFile(event.document)
    THEN LET markdownFile == getMarkdownUri(event.document.uri) IN
         calls \o << [call |-> "logger.log", title |-> "updatePreviewForSelection",
                      markdownFile |-> markdownFile],
                     [call |-> "executeCommand",
                      command |-> "_workbench.htmlPreview.postMessage",
                      uri |-> markdownFile,
                      line |-> event.selections[1].active] >>
    ELSE calls

\* The number of delivered events of the given types.
Delivered(types) == Cardinality({ k \in 1..Len(events) : events[k].type \in types })

\* The host delivers a document-saved event.
DidSaveTextDocument(document) ==
    /\ "onDidSaveTextDocument" \in registered
    /\ Delivered({"save", "change"}) < MaxDocEvents
    /\ events' = Append(events, [type |-> "save", document |-> document, selections |-> <<>>])
    /\ updates' = SaveListener(updates, document)
    /\ UNCHANGED <<activationVars, effects, linkVars, clickVars>>

\* The host delivers a document-changed event.
DidChangeTextDocument(document) ==
    /\ "onDidChangeTextDocument" \in registered
    /\ Delivered({"save", "change"}) < MaxDocEvents
    /\ LET event == [type |-> "change", document |-> document, selections |-> <<>>] IN
          /\ events' = Append(events, event)
          /\ updates' = ChangeListener(updates, event)
    /\ UNCHANGED <<activationVars, effects, linkVars, clickVars>>

\* The host delivers a configuration-changed event.
DidChangeConfiguration ==
    /\ "onDidChangeConfiguration" \in registered
    /\ Delivered({"configuration", "selection"}) < MaxSelEvents
    /\ events' = Append(events, [type |-> "configuration", document |-> NoDocument,
                                  selections |-> <<>>])
    /\ effects' = ConfigurationListener(effects)
    /\ UNCHANGED <<activationVars, updates, linkVars, clickVars>>

\* The host delivers a selection-changed event of an editor on `document`.
DidChangeTextEditorSelection(document, selections) ==
    /\ "onDidChangeTextEditorSelection" \in registered
    /\ Delivered({"configuration", "selection"}) < MaxSelEvents
    /\ LET event == [type |-> "selection", document |-> document, selections |-> selections] IN
          /\ events' = Append(events, event)
          /\ effects' = SelectionListener(effects, event)
    /\ UNCHANGED <<activationVars, updates, linkVars, clickVars>>

InitEvents == InitHost /\ NoEvents /\ NoCommands

\* The document listeners: saves and changes, in any order.
NextDocEvents ==
    \/ Activate
    \/ \E document \in Documents : DidSaveTextDocument(document)
    \/ \E document \in Documents : DidChangeTextDocument(document)

SpecDocEvents == InitEvents /\ [][NextDocEvents]_vars

\* The selection and configuration listeners, in any order.
NextSelEvents ==
    \/ Activate
    \/ DidChangeConfiguration
    \/ \E document \in Documents, selections \in SelectionLists :
           DidChangeTextEditorSelection(document, selections)

SpecSelEvents == InitEvents /\ [][NextSelEvents]_vars

\* ------------------------------------------- _markdown.openDocumentLink

\* File paths are sequences of characters.
DotMd == << ".", "m", "d" >>

\* The paths a link may carry: /a, /a.md, /c.txt and /.a
LinkPaths ==
    { << "/", "a" >>,
      << "/", "a", ".", "m", "d" >>,
      << "/", "c", ".", "t", "x", "t" >>,
      << "/", ".", "a" >> }

\* The last position of character ch in seq at or after position from, or 0.
LastIndexFrom(seq, ch, from) ==
    LET at == { k \in from..Len(seq) : seq[k] = ch }
    IN  IF at = {} THEN 0 ELSE CHOOSE k \in at : \A j \in at : j <= k

\* path.extname: the part of the last path segment from its last dot on; empty
\* without a dot, when the dot starts the segment, and for the segment "..".
extname(path) ==
    LET start == LastIndexFrom(path, "/", 1) + 1
        dot == LastIndexFrom(path, ".", start)
    IN  IF dot = 0 \/ dot = start \/ SubSeq(path, start, Len(path)) = << ".", "." >>
        THEN <<>>
        ELSE SubSeq(path, dot, Len(path))

\* The paths of the documents of the workspace: the link paths, and those the
\* retry with .md reaches.
DocumentPaths == LinkPaths \cup { path \o DotMd : path \in LinkPaths }

LanguageIds == { "markdown", "plaintext" }

\* The fragments a link may carry: none, or a heading's anchor.
Fragments == { "", "intro" }

\* The promise of the handler is fulfilled.
Resolve(h) == [h EXCEPT !.pc = "done", !.result = "resolved"]

\* tryRevealLine with the test of line 134 dropped: NaN is revealed too.
RevealIfFoundUnchecked(h, line) ==
    [h EXCEPT !.calls = Append(@, Call("revealRange", h.editor.document.uri.path, "",
                                       line, "AtTop"))]

\* Lines 134-138: after the lookup, the line is revealed unless it is NaN.
RevealIfFound(h, line) ==
    IF ~line.nan
    THEN [h EXCEPT !.calls = Append(@, Call("revealRange", h.editor.document.uri.path, "",
                                            line, "AtTop"))]
    ELSE h

\* Lines 130-133: tryRevealLine up to its await of the lookup.
tryRevealLine(h, editor) ==
    IF editor.defined /\ h.args.fragment # ""
    THEN [h EXCEPT !.pc = "lookup", !.editor = editor,
                   !.lookup = IF h.attempt = 1 THEN "pending" ELSE @,
                   !.calls = Append(@, Call("toc.lookup", editor.document.uri.path,
                                            h.args.fragment, NaN, ""))]
    ELSE Resolve(h)

\* Line 143: the active editor shows a markdown document at exactly this path.
ActiveEditorShows(active, path) ==
    active.defined /\ isMarkdownFile(active.document) /\ active.document.uri.path = path

\* Lines 142-151: tryOpen up to its first await.
tryOpen(h, path, active) ==
    IF ActiveEditorShows(active, path)
    THEN tryRevealLine([h EXCEPT !.target = path,
                                 !.matched = IF h.attempt = 1 THEN TRUE ELSE @], active)
    ELSE [h EXCEPT !.pc = "opening", !.target = path,
                   !.calls = Append(@, Call("openTextDocument", path, "", NaN, ""))]

\* Lines 153-161: the handler given to catch, run when the first tryOpen rejects.
CatchFirstAttempt(h, active) ==
    IF extname(h.args.path) = <<>>
    THEN tryOpen([h EXCEPT !.attempt = 2, !.firstFailed = TRUE, !.retried = TRUE],
                 h.args.path \o DotMd, active)
    ELSE [h EXCEPT !.attempt = 2, !.firstFailed = TRUE, !.pc = "generic",
                   !.calls = Append(@, Call("vscode.open", h.args.path, "", NaN, ""))]

\* A step of the chain rejects: the first tryOpen is caught at line 153; the
\* promise the catch handler returns is the promise of the handler itself.
Rejected(h, active) ==
    IF h.attempt = 1 THEN CatchFirstAttempt(h, active)
    ELSE [h EXCEPT !.pc = "done", !.result = "rejected",
                   !.retryFailed = h.retried]

\* Lines 129-153: the command is invoked with args.
OpenDocumentLink(args) ==
    /\ "_markdown.openDocumentLink" \in registered
    /\ link.pc \in {"idle", "done"}
    /\ link' = tryOpen([LinkIdle EXCEPT !.args = args, !.attempt = 1], args.path, activeEditor)
    /\ UNCHANGED <<activationVars, eventVars, activeEditor, clickVars>>

\* Lines 147-148: vscode.workspace.openTextDocument settles.
OpenTextDocumentSettles ==
    /\ link.pc = "opening"
    /\ \/ link' = [link EXCEPT !.pc = "showing",
                                !.calls = Append(@, Call("showTextDocument", link.target,
                                                         "", NaN, ""))]
       \/ link' = Rejected(link, activeEditor)
    /\ UNCHANGED <<activationVars, eventVars, activeEditor, clickVars>>

\* Lines 148-149: vscode.window.showTextDocument settles; the editor it
\* resolves to is the active one.
ShowTextDocumentSettles ==
    /\ link.pc = "showing"
    /\ \/ \E languageId \in LanguageIds :
             LET editor == Editor([uri |-> UriFile(link.target), languageId |-> languageId])
             IN  /\ activeEditor' = editor
                 /\ link' = tryRevealLine(link, editor)
       \/ /\ link' = Rejected(link, activeEditor)
          /\ UNCHANGED activeEditor
    /\ UNCHANGED <<activationVars, eventVars, clickVars>>

\* Lines 133-138: the table-of-contents lookup settles, with a line, with NaN
\* or with a rejection.
LookupSettles ==
    /\ link.pc = "lookup"
    /\ \/ \E line \in { Line(n) : n \in Lines } \cup { NaN } :
             link' = Resolve(RevealIfFound(
                         [link EXCEPT !.lookup = IF link.attempt = 1 THEN "settled" ELSE @,
                                      !.found = IF link.attempt = 1 THEN line ELSE @],
                         line))
       \/ link' = Rejected([link EXCEPT !.lookup = IF link.attempt = 1 THEN "rejected" ELSE @],
                           activeEditor)
    /\ UNCHANGED <<activationVars, eventVars, activeEditor, clickVars>>

\* Lines 159-160: the vscode.open command settles.
GenericOpenSettles ==
    /\ link.pc = "generic"
    /\ \/ link' = Resolve(link)
       \/ link' = Rejected(link, activeEditor)
    /\ UNCHANGED <<activationVars, eventVars, activeEditor, clickVars>>

\* The user moves to another editor, or closes the last one.
ChangeActiveEditor ==
    /\ pc = "returned"
    /\ \E editor \in { NoEditor } \cup
                      { Editor([uri |-> UriFile(path), languageId |-> languageId])
                        : path \in DocumentPaths, languageId \in LanguageIds } :
          /\ editor # activeEditor
          /\ activeEditor' = editor
    /\ UNCHANGED <<activationVars, eventVars, link, clickVars>>

InitLink == InitHost /\ NoEvents /\ NoCommands

NextLink ==
    \/ Activate
    \/ \E path \in LinkPaths, fragment \in Fragments :
           OpenDocumentLink([path |-> path, fragment |-> fragment])
    \/ OpenTextDocumentSettles
    \/ ShowTextDocumentSettles
    \/ LookupSettles
    \/ GenericOpenSettles
    \/ ChangeActiveEditor

SpecLink == InitLink /\ [][NextLink]_vars

\* ---------------------------------------------------- _markdown.didClick

\* The uri arguments of the command, as the preview sends them.
ClickUris == { "file%3A%2F%2F%2Fa.md", "file:///b.md", "file:///a%2" }

\* decodeURIComponent on these arguments; "" stands for the URIError thrown
\* on a malformed escape.
decodeURIComponent(uri) ==
    CASE uri = "file%3A%2F%2F%2Fa.md" -> "file:///a.md"
      [] uri = "file:///b.md"         -> "file:///b.md"
      [] OTHER                        -> ""

\* vscode.Uri.parse on the decoded arguments.
ParseSourceUri(text) ==
    CASE text = "file:///a.md" -> UriFile("/a.md")
      [] text = "file:///b.md" -> UriFile("/b.md")
      [] OTHER                 -> UriFile("")

\* The line arguments: fractions num/den of a line.
ClickLines == { [num |-> n, den |-> 2] : n \in 0..(2 * MaxLine + 1) }

\* Math.floor
Floor(line) == line.num \div line.den

\* Lines 113-115: the command is invoked; up to the call of openTextDocument.
DidClick(uri, line) ==
    /\ "_markdown.didClick" \in registered
    /\ click.pc \in {"idle", "done"}
    /\ LET decoded == decodeURIComponent(uri)
           sourceUri == ParseSourceUri(decoded)
           started == [ClickIdle EXCEPT !.uri = uri, !.line = line, !.before = selection]
       IN  IF decoded = ""
           THEN click' = [started EXCEPT !.pc = "done", !.result = "threw"]
           ELSE click' = [started EXCEPT
                             !.pc = "opening", !.path = sourceUri.path,
                             !.calls = << Call("openTextDocument", sourceUri.path, "",
                                               NaN, "") >>]
    /\ UNCHANGED <<activationVars, eventVars, linkVars, selection>>

\* A rejection that is swallowed: the chain goes on with its next step.
ClickRejectedSwallowed(h) ==
    IF h.pc = "opening"
    THEN [h EXCEPT !.pc = "showing",
                   !.calls = Append(@, Call("showTextDocument", h.path, "", NaN, ""))]
    ELSE IF h.pc = "showing"
    THEN [h EXCEPT !.pc = "revealing",
                   !.calls = Append(@, Call("revealLine", "", "",
                                            [nan |-> FALSE, value |-> h.line.num \div h.line.den],
                                            "center"))]
    ELSE [h EXCEPT !.pc = "done", !.result = "rejected"]

\* Lines 115-126: a step of the chain rejects: no later callback runs.
ClickRejected(h) == [h EXCEPT !.pc = "done", !.result = "rejected"]

\* Lines 115-116: openTextDocument settles.
ClickOpenSettles ==
    /\ click.pc = "opening"
    /\ \/ click' = [click EXCEPT !.pc = "showing", !.settled = @ + 1,
                                  !.calls = Append(@, Call("showTextDocument", click.path,
                                                           "", NaN, ""))]
       \/ click' = ClickRejected(click)
    /\ UNCHANGED <<activationVars, eventVars, linkVars, selection>>

\* Lines 116-118: showTextDocument settles, with an editor or without one.
ClickShowSettles ==
    /\ click.pc = "showing"
    /\ \/ \E editor \in BOOLEAN :
             click' = [click EXCEPT !.pc = "revealing", !.settled = @ + 1, !.editor = editor,
                                    !.calls = Append(@, Call("revealLine", "", "",
                                                             Line(Floor(click.line)),
                                                             "center"))]
       \/ click' = ClickRejected(click)
    /\ UNCHANGED <<activationVars, eventVars, linkVars, selection>>

\* Lines 119-126: the revealLine command settles; the selection is set on the
\* editor, if there is one.
ClickRevealSettles ==
    /\ click.pc = "revealing"
    /\ \/ /\ click' = [click EXCEPT !.pc = "done", !.settled = @ + 1, !.result = "resolved"]
          /\ selection' =
                IF click.editor
                THEN [selection EXCEPT ![click.path] =
                          Selection(Position(Floor(click.line), 0),
                                    Position(Floor(click.line), 0))]
                ELSE selection
       \/ /\ click' = ClickRejected(click)
          /\ UNCHANGED selection
    /\ UNCHANGED <<activationVars, eventVars, linkVars>>

InitClick == InitHost /\ NoEvents /\ NoCommands

NextClick ==
    \/ Activate
    \/ \E uri \in ClickUris, line \in ClickLines : DidClick(uri, line)
    \/ ClickOpenSettles
    \/ ClickShowSettles
    \/ ClickRevealSettles

SpecClick == InitClick /\ [][NextClick]_vars

\* ---------------------------------------------------- claims on activation

Range(seq) == { seq[k] : k \in 1..Len(seq) }

Count(seq, x) == Cardinality({ k \in 1..Len(seq) : seq[k] = x })

\* The contributions extension i declares under `key`, none without a
\* contributes block.
Declared(i, key) ==
    IF installed[i].defined /\ installed[i].contributes.defined
    THEN (IF key = "styles" THEN installed[i].contributes.styles
          ELSE installed[i].contributes.scripts)
    ELSE <<>>

\* A declared value that resolves and that the content provider accepts.
Registrable(value) == value.isString /\ value.scheme # "refused"

\* The resource a registrable value of extension i stands for: the value
\* itself when it carries a scheme, else a file under the extension's directory.
ResourceOf(i, value) ==
    IF value.scheme # "" THEN [scheme |-> value.scheme, path |-> value.path]
    ELSE [scheme |-> "file", path |-> "/extensions/e" \o ToString(i) \o "/" \o value.path]

\* The resources of the registrable values of seq, in order.
RECURSIVE ResourcesOf(_, _)
ResourcesOf(i, seq) ==
    IF seq = <<>> THEN <<>>
    ELSE (IF Registrable(Head(seq)) THEN << ResourceOf(i, Head(seq)) >> ELSE <<>>)
             \o ResourcesOf(i, Tail(seq))

\* The resources of every registrable value declared under `key` by the
\* extensions i, i+1, ..., in order.
RECURSIVE ExpectedFrom(_, _)
ExpectedFrom(i, key) ==
    IF i > Len(installed) THEN <<>>
    ELSE ResourcesOf(i, Declared(i, key)) \o ExpectedFrom(i + 1, key)

\* C6: once activate has run it has returned (no contribution made it throw),
\* and the content provider holds exactly the resources of the declared styles
\* and scripts that resolve and register, each once and in declaration order:
\* a failing item is skipped alone, and an extension without a contributes
\* block adds nothing.
C6_ContributionFailuresIsolated ==
    pc # "start" =>
        /\ pc = "returned"
        /\ previewStyles = ExpectedFrom(1, "styles")
        /\ previewScripts = ExpectedFrom(1, "scripts")

\* A style that fails to resolve is followed by a style of the same extension
\* that was registered, next to an extension without a contributes block.
C6_Witness ==
    /\ pc = "returned"
    /\ \E i \in ExtIds :
          /\ Len(Declared(i, "styles")) = 2
          /\ ~Registrable(Declared(i, "styles")[1])
          /\ Registrable(Declared(i, "styles")[2])
          /\ previewStyles = << ResourceOf(i, Declared(i, "styles")[2]) >>
    /\ \E j \in ExtIds : ~installed[j].defined

\* The disposables activate must leave on context.subscriptions.
RequiredDisposables ==
    { "contentProviderRegistration", "symbolsProviderRegistration",
      "linkProviderRegistration", "commandManager" } \cup AdHocCommands \cup Listeners

\* C7: once activate has returned, whatever the state of the plugin
\* activations, the three providers, the four ad-hoc commands and the four
\* listeners are registered, the command manager holds its six commands, and
\* every one of these registrations' disposables is on context.subscriptions.
C7_AllRegisteredAtReturn ==
    pc # "start" =>
        /\ pc = "returned"
        /\ registered = HostRegistrations
        /\ Cardinality(AdHocCommands) = 4 /\ Cardinality(Listeners) = 4
        /\ managerCommands = ManagerCommands /\ Cardinality(managerCommands) = 6
        /\ RequiredDisposables \subseteq Range(subscriptions)

\* activate has returned while one plugin activation is pending and another
\* has already been rejected, and no callback has run.
C7_Witness ==
    /\ pc = "returned"
    /\ \E i, j \in ExtIds : activation[i] = "pending" /\ activation[j] = "rejected"
    /\ \A i \in ExtIds : ~callbackRan[i]

\* C8: once activate has run, the reporter exists exactly when the extension
\* record with its packageJSON was found, it is on context.subscriptions once
\* when it exists and not at all otherwise, and the other registrations are
\* made either way.
C8_TelemetryReporterOnce ==
    pc # "start" =>
        /\ telemetryReporter \in {"reporter", "null"}
        /\ (telemetryReporter = "reporter") <=> (markdownExt = "withPackageJSON")
        /\ Count(subscriptions, "telemetryReporter")
               = (IF markdownExt = "withPackageJSON" THEN 1 ELSE 0)
        /\ registered = HostRegistrations
        /\ RequiredDisposables \subseteq Range(subscriptions)

\* The extension record was found without a packageJSON: no reporter, nothing
\* pushed for it, and the registrations are made.
C8_Witness ==
    /\ pc = "returned"
    /\ markdownExt = "noPackageJSON"
    /\ telemetryReporter = "null"
    /\ Len(subscriptions) = Cardinality(RequiredDisposables)

\* Extension i declares markdown.markdownItPlugins.
DeclaresPlugins(i) ==
    installed[i].defined /\ installed[i].contributes.defined /\ installed[i].contributes.plugins

\* C9: a plugin is added for an extension at most once; it is added exactly
\* when the extension's callback has run on exports that expose
\* extendMarkdownIt; the callback runs only after activate has run, on a
\* resolved activation of an extension that declares the hook.  So a rejected
\* activation or a missing export adds nothing, and never keeps another
\* extension's plugin from being added.
C9_PluginAddedOnceAfterActivation ==
    \A i \in ExtIds :
        /\ Count(plugins, i) <= 1
        /\ (i \in Range(plugins)) <=> (callbackRan[i] /\ exports[i] = "extendMarkdownIt")
        /\ callbackRan[i] => (activation[i] = "resolved" /\ pc # "start")
        /\ (activation[i] # "none") <=> (pc # "start" /\ DeclaresPlugins(i))

\* The first extension's activation was rejected and the second extension's
\* plugin has been added, after activate returned.
C9_Witness ==
    /\ pc = "returned"
    /\ Len(installed) = 2
    /\ activation[1] = "rejected"
    /\ plugins = << 2 >>

\* ------------------------------------------------- claims on the listeners

\* The preview URIs of the markdown documents of the save and change events
\* among evs, in order.
RECURSIVE ExpectedUpdates(_)
ExpectedUpdates(evs) ==
    IF evs = <<>> THEN <<>>
    ELSE (IF Head(evs).type \in {"save", "change"} /\ isMarkdownFile(Head(evs).document)
          THEN << getMarkdownUri(Head(evs).document.uri) >>
          ELSE <<>>)
         \o ExpectedUpdates(Tail(evs))

\* C4: contentProvider.update has been called once per save or change event on
\* a markdown document, in event order, with the preview URI of that event's
\* document, and not at all for the events on other documents.
C4_OneUpdatePerMarkdownEvent ==
    /\ updates = ExpectedUpdates(events)
    /\ Len(updates) = Cardinality({ k \in 1..Len(events) :
                                      /\ events[k].type \in {"save", "change"}
                                      /\ isMarkdownFile(events[k].document) })

\* A save of a markdown document, a change of a text file and a change of
\* another markdown document were delivered: two updates, in that order.
C4_Witness ==
    /\ Len(events) = 3
    /\ events[1].type = "save" /\ events[1].document.uri.path = "/a.md"
    /\ events[2].type = "change" /\ events[2].document.languageId = "plaintext"
    /\ events[3].type = "change" /\ events[3].document.uri.path = "/b.md"
    /\ Len(updates) = 2
    /\ updates[1].query = "file:///a.md" /\ updates[2].query = "file:///b.md"

\* What the selection and configuration events among evs make the listeners
\* do, in order.
RECURSIVE ExpectedEffects(_)
ExpectedEffects(evs) ==
    IF evs = <<>> THEN <<>>
    ELSE (IF Head(evs).type = "selection" /\ isMarkdownFile(Head(evs).document)
          THEN LET preview == getMarkdownUri(Head(evs).document.uri)
               IN << [call |-> "logger.log", title |-> "updatePreviewForSelection",
                      markdownFile |-> preview],
                     [call |-> "executeCommand",
                      command |-> "_workbench.htmlPreview.postMessage",
                      uri |-> preview,
                      line |-> Head(Head(evs).selections).active] >>
          ELSE IF Head(evs).type = "configuration"
          THEN << [call |-> "logger.updateConfiguration"],
                  [call |-> "contentProvider.updateConfiguration"] >>
          ELSE <<>>)
         \o ExpectedEffects(Tail(evs))

\* C5: every selection event on a markdown document has issued exactly one
\* _workbench.htmlPreview.postMessage command, to the preview URI of the
\* event's document and with the active line of the event's first selection,
\* right after the log entry of that event; a selection event on another
\* document has issued no command and logged nothing.
C5_SelectionForwardsActiveLine ==
    /\ effects = ExpectedEffects(events)
    /\ Cardinality({ k \in 1..Len(effects) : effects[k].call = "executeCommand" })
           = Cardinality({ k \in 1..Len(events) :
                             /\ events[k].type = "selection"
                             /\ isMarkdownFile(events[k].document) })
    /\ \A k \in 1..Len(effects) :
           effects[k].call = "executeCommand" => (k > 1 /\ effects[k - 1].call = "logger.log")

\* A selection event with two selections on a markdown document, the first
\* one from line 1 back to line 0, after a selection event on a text file:
\* one log entry, then one command carrying line 0.
C5_Witness ==
    /\ Len(events) = 2
    /\ events[1].type = "selection" /\ events[1].document.languageId = "plaintext"
    /\ events[2].type = "selection" /\ events[2].document.uri.path = "/a.md"
    /\ Len(events[2].selections) = 2
    /\ events[2].selections[1] = [anchor |-> 1, active |-> 0]
    /\ Len(effects) = 2
    /\ effects[1].call = "logger.log"
    /\ effects[2].call = "executeCommand" /\ effects[2].line = 0

\* ----------------------------------- claims on _markdown.openDocumentLink

\* The names of the calls of a handler, in order.
Names(calls) == [k \in 1..Len(calls) |-> calls[k].name]

\* C1: the promise the handler of _markdown.openDocumentLink returns is never
\* rejected, whatever fails among opening, showing, the lookup, the retry with
\* .md and the vscode.open command.
C1_NeverRejects == link.result # "rejected"

\* C2: when the path has no extension and the first attempt failed, the retry
\* with .md has been made, vscode.open was not called before it, and once the
\* retry has failed too vscode.open has been called as the fallback.
C2_RetryThenGenericOpen ==
    (link.firstFailed /\ extname(link.args.path) = <<>>) =>
        /\ link.retried
        /\ (~link.retryFailed => "vscode.open" \notin Range(Names(link.calls)))
        /\ (link.retryFailed => "vscode.open" \in Range(Names(link.calls)))

\* C3: when the invocation found the active editor showing a markdown document
\* at exactly args.path, the handler has called nothing but the lookup of the
\* fragment in that document and, once the lookup yielded a line, the reveal
\* of that line at the top of that editor: the document is neither opened nor
\* shown again, and a lookup that yielded NaN reveals nothing.
C3_RevealWithoutReopening ==
    (link.matched /\ link.lookup \in {"pending", "settled"}) =>
        LET lookup == Call("toc.lookup", link.args.path, link.args.fragment, NaN, "")
            reveal == Call("revealRange", link.args.path, "", link.found, "AtTop")
        IN  /\ link.editor.document.uri.path = link.args.path
            /\ link.calls = IF link.lookup = "settled" /\ ~link.found.nan
                            THEN << lookup, reveal >>
                            ELSE << lookup >>
            /\ link.lookup = "settled" => link.result = "resolved"

\* The active editor showed markdown document /a.md, the link to /a.md#intro
\* was opened, the lookup yielded line 1 and that line was revealed; meanwhile
\* the user has moved to another editor.
C3_Witness ==
    /\ link.matched
    /\ link.args = [path |-> << "/", "a", ".", "m", "d" >>, fragment |-> "intro"]
    /\ link.lookup = "settled"
    /\ link.found = Line(1)
    /\ Len(link.calls) = 2
    /\ link.calls[2].name = "revealRange" /\ link.calls[2].line = Line(1)
    /\ activeEditor # link.editor

\* ------------------------------------------- claims on _markdown.didClick

\* The calls the handler makes when nothing fails, for the document at path
\* and the whole line n.
ClickSteps(path, n) ==
    << Call("openTextDocument", path, "", NaN, ""),
       Call("showTextDocument", path, "", NaN, ""),
       Call("revealLine", "", "", Line(n), "center") >>

\* C10: the handler of _markdown.didClick opens the document, shows it,
\* reveals the line rounded down at the centre and then sets the selection to
\* the empty range at the start of that line, each step only after the one
\* before has settled successfully; after a failure no later step is made and
\* the selection is as it was.
C10_ClickStepsInOrder ==
    click.pc # "idle" =>
        \E n \in 0..MaxLine :
            /\ n * click.line.den <= click.line.num
            /\ click.line.num < (n + 1) * click.line.den
            /\ Len(click.calls) <= 3
            /\ click.calls = SubSeq(ClickSteps(click.path, n), 1, Len(click.calls))
            /\ Len(click.calls) = (IF click.result = "threw" THEN 0
                                   ELSE IF click.settled = 3 THEN 3
                                   ELSE click.settled + 1)
            /\ IF click.result = "resolved" /\ click.editor
               THEN /\ click.settled = 3
                    /\ selection = [click.before EXCEPT ![click.path] =
                                       Selection(Position(n, 0), Position(n, 0))]
               ELSE selection = click.before

\* A click on line 1.5 of /a.md went through: the document was opened and
\* shown, line 1 was revealed and the selection moved from (0, 1) to (1, 0).
C10_Witness ==
    /\ click.pc = "done" /\ click.result = "resolved"
    /\ click.uri = "file%3A%2F%2F%2Fa.md"
    /\ click.line = [num |-> 3, den |-> 2]
    /\ Names(click.calls) = << "openTextDocument", "showTextDocument", "revealLine" >>
    /\ click.calls[3].line = Line(1)
    /\ click.before["/a.md"] = Selection(Position(0, 1), Position(0, 1))
    /\ selection["/a.md"] = Selection(Position(1, 0), Position(1, 0))
====
